---- MODULE Spec2Model ----
(***************************************************************************)
(* Announcement deduplication-and-fanout engine of bse_but_ai.             *)
(*                                                                         *)
(* A sweep (announcement_check_task) runs in a thread of its own and       *)
(* calls process_announcements_for_scrip for every monitored scrip.  Two   *)
(* threads may run sweeps at the same time; they share the                 *)
(* seen_announcements table and the Telegram channel.                      *)
(***************************************************************************)
EXTENDS Integers, Sequences, FiniteSets, TLC

\* ------------------------------------------------------------------------
\* Bounds of the model
\* ------------------------------------------------------------------------
MaxSweeps == 2

\* longest text handed to a function that is followed on its own
MaxText == 6

\* last reading of the clock, in half seconds
MaxClock == 7

\* calls of start_scheduler made by one thread
MaxCalls == 2

\* seconds counted by a scheduler thread in one task or one sleep
MaxWait == 3

\* tasks of one scheduler thread counted as running at once
MaxOverlap == 2

\* ------------------------------------------------------------------------
\* Fixed data: threads, users, recipients, scrips and what the source holds
\* ------------------------------------------------------------------------
Threads == {1, 2}

None == "None"

\* values of the fields NEWSSUB and HEADLINE of a record of data['Table']:
\* the key is absent, its value is null, or it is a string (its characters)
Absent == [t |-> "absent", s |-> << >>]
Null == [t |-> "null", s |-> << >>]
Str(chars) == [t |-> "str", s |-> chars]

Users == {"u1", "u2"}

\* the deployments explored: the scrips monitored, the recipient rows, how
\* many sweeps may run at the same time, and whether calls on the store
\* can fail.  Sweeps that follow each other are explored over two scrips
\* and two recipients (one user with two chats, or two users with a chat
\* each), overlapping sweeps over one scrip and one recipient, with a
\* store that can fail and with one that answers every call
Worlds ==
    { [scrips |-> << "s1", "s2" >>, overlap |-> 1, outages |-> TRUE,
       recipients |-> << [user_id |-> "u1", chat_id |-> "c1"],
                         [user_id |-> "u1", chat_id |-> "c2"] >>],
      [scrips |-> << "s1", "s2" >>, overlap |-> 1, outages |-> TRUE,
       recipients |-> << [user_id |-> "u1", chat_id |-> "c1"],
                         [user_id |-> "u2", chat_id |-> "c3"] >>] }
    \cup
    { [scrips |-> << "s1" >>, overlap |-> 2, outages |-> b,
       recipients |-> << [user_id |-> "u1", chat_id |-> "c1"] >>] :
      b \in BOOLEAN }
    \cup
    \* deployments with nothing to check: no scrip, no recipient, neither
    { [scrips |-> << >>, overlap |-> 2, outages |-> FALSE,
       recipients |-> << [user_id |-> "u1", chat_id |-> "c1"] >>],
      [scrips |-> << "s1" >>, overlap |-> 2, outages |-> FALSE,
       recipients |-> << >>],
      [scrips |-> << >>, overlap |-> 2, outages |-> FALSE,
       recipients |-> << >>] }

AllScrips == {"s1", "s2"}

\* the cutoff handed to process_announcements_for_scrip (now - 24h), as a
\* point on an integer time line
cutoff_time == 1

\* records of data['Table'] per scrip; n2 is a reissue of n1's attachment
\* dated at the cutoff, n3 is older than the cutoff.
\* NEWS_DT is the date string: the format it is written in (fmt "missing"
\* when the record has neither NEWS_DT nor DissemDT) and the time it names
BseTable(scrip_code) ==
    IF scrip_code = "s1"
    THEN << [NEWSID |-> "n1", ATTACHMENTNAME |-> "x.pdf", NEWS_DT |-> [fmt |-> "dmy", at |-> 2], NEWSSUB |-> Str(<< "h", "1" >>), HEADLINE |-> Absent],
            [NEWSID |-> "n2", ATTACHMENTNAME |-> "x.pdf", NEWS_DT |-> [fmt |-> "iso", at |-> 1], NEWSSUB |-> Str(<< "h", "2" >>), HEADLINE |-> Absent] >>
    ELSE << [NEWSID |-> "n3", ATTACHMENTNAME |-> "y.pdf", NEWS_DT |-> [fmt |-> "iso_us", at |-> 0], NEWSSUB |-> Str(<< "h", "3" >>), HEADLINE |-> Absent] >>

AllAnnouncements ==
    UNION {{BseTable(s)[k] : k \in 1..Len(BseTable(s))} : s \in AllScrips}

NewsIds == {a.NEWSID : a \in AllAnnouncements}

\* rows the seen_announcements table can hold (the columns the dedup reads)
Rows == {[user_id |-> u, news_id |-> a.NEWSID, pdf_name |-> a.ATTACHMENTNAME] :
           u \in Users, a \in AllAnnouncements}

\* outcome of one call on the store: the query ran, or there is no client /
\* the query raised
StoreOutcome == {"ok", "unavailable"}

TELEGRAM_CAPTION_LIMIT == 4096

\* lengths a rendered caption can have: the templates are short, the
\* AI-structured message carries untruncated fields and can pass the limit
TemplateLen == 600
CaptionLens(kind) == IF kind = "ai" THEN {600, 5000} ELSE {TemplateLen}

\* length of the "Full details" line put before the caption
LinkLineLen == 200

\* AppConfig.APP_BASE_URL is configured
APP_BASE_URL == "https://app"

\* ------------------------------------------------------------------------
\* State
\* ------------------------------------------------------------------------
VARIABLES
    store,                \* seen_announcements: number of rows per (user, news, pdf)
    world,                \* the deployment: scrips, recipient rows, overlap
    watch,                \* the (recipient, news_id) pair the observations follow
    delivered,            \* documents the channel accepted for the watched pair
    failed,               \* a send for the watched pair failed with its SeenRecord written
    started,              \* sweeps started so far
    inv,                  \* per thread: the frame of the running sweep
    call                  \* one call of a function followed on its own (unit level)

vars == << store, world, watch, delivered, failed, started, inv, call >>

\* no function is followed on its own
NoCall == [fn |-> "none"]

monitored_scrips == world.scrips
telegram_recipients == world.recipients

\* the outcomes a call on the store can have in this deployment
StoreAnswers == IF world.outages THEN StoreOutcome ELSE {"ok"}

\* values of the local `link`: not yet assigned (bound FALSE), None (url
\* FALSE), or the deep link signed for user_id and news_id
NoLink == [bound |-> FALSE, url |-> FALSE, user_id |-> None, news_id |-> None]

\* the deployment has no monitored scrip or no recipient
EmptyWork == world.scrips = << >> \/ world.recipients = << >>

\* a test that looks at the scrips only
NothingToCheckScripsOnly(scrips, recipients) == scrips = << >>

\* app.py line 347: not monitored_scrips or not recipients
NothingToCheck(scrips, recipients) ==
    scrips = << >> \/ recipients = << >>

\* frame of a thread that runs nothing
IdleFrame ==
    [ pc           |-> "idle",
      sidx         |-> 0,        \* position in monitored_scrips
      aidx         |-> 0,        \* position in data['Table']
      ridx         |-> 0,        \* position in recipients (filter loop)
      need         |-> << >>,    \* users_who_need_notification (indices)
      didx         |-> 0,        \* position in need (dispatch loop)
      pdf_bytes    |-> FALSE,    \* the attachment was downloaded
      caption      |-> [kind |-> "none", len |-> 0],   \* final_caption
      link         |-> NoLink,   \* local `link` of the function
      per_user_len |-> 0,        \* len(per_user_caption)
      \* observations on the watched pair, for the announcement in hand
      seenAtEval   |-> FALSE,    \* its user had a row for news_id when evaluation began
      pdfAtEval    |-> FALSE,    \* ... a row for pdf_name under another news_id
      unchecked    |-> FALSE,    \* a dedup check for it could not be performed
      wrote        |-> FALSE,    \* this invocation inserted a row for its user
      raised       |-> FALSE,    \* an exception was caught earlier in this sweep
      skipped      |-> FALSE ]   \* the last run logged "Skipping check" and returned

Init ==
    /\ store = [r \in Rows |-> 0]
    /\ world \in Worlds
    /\ watch \in IF EmptyWork
                 THEN { [recipient |-> [user_id |-> "u1", chat_id |-> "c1"],
                         news_id |-> "n1"] }
                 ELSE [recipient : {world.recipients[k] : k \in 1..Len(world.recipients)},
                       news_id : {BseTable(world.scrips[1])[k].NEWSID :
                                    k \in 1..Len(BseTable(world.scrips[1]))}]
    /\ delivered = 0
    /\ failed = FALSE
    /\ started = 0
    /\ inv = [t \in Threads |-> IdleFrame]
    /\ call = NoCall

\* ------------------------------------------------------------------------
\* Seen-set store (services/db_service.py)
\* ------------------------------------------------------------------------

\* select('id').eq('news_id', news_id).eq('user_id', user_id) on table S
RowsByNews(S, news_id, user_id) ==
    {r \in Rows : S[r] > 0 /\ r.news_id = news_id /\ r.user_id = user_id}

\* select('id').eq('pdf_name', pdf_name).eq('user_id', user_id) on table S
RowsByPdf(S, pdf_name, user_id) ==
    {r \in Rows : S[r] > 0 /\ r.pdf_name = pdf_name /\ r.user_id = user_id}

\* the check without the user filter, as db_check_if_announcement_seen
\* makes it
db_check_if_announcement_seen_any_user(S, news_id, user_id, o) ==
    IF o = "unavailable" THEN FALSE
    ELSE \E r \in Rows : S[r] > 0 /\ r.news_id = news_id

\* no client, or the query raises: the function answers False
db_check_if_announcement_seen_by_user(S, news_id, user_id, o) ==
    IF o = "unavailable" THEN FALSE
    ELSE RowsByNews(S, news_id, user_id) # {}

db_check_if_pdf_seen_by_user(S, pdf_name, user_id, o) ==
    IF o = "unavailable" THEN FALSE
    ELSE RowsByPdf(S, pdf_name, user_id) # {}

\* insert of one row; without a client, or when the insert raises, nothing
\* is written and nothing is reported to the caller
db_save_announcement_for_user(S, news_id, user_id, pdf_name, o) ==
    IF o = "unavailable" THEN S
    ELSE LET r == [user_id |-> user_id, news_id |-> news_id, pdf_name |-> pdf_name]
         IN  [S EXCEPT ![r] = @ + 1]

\* ------------------------------------------------------------------------
\* Frames
\* ------------------------------------------------------------------------
Scrip(f) == monitored_scrips[f.sidx]
Announcement(f) == BseTable(Scrip(f))[f.aidx]
FilterRecipientOf(f) == telegram_recipients[f.ridx]
Recipient(f) == telegram_recipients[f.need[f.didx]]

\* the frame is at the watched announcement / recipient
WatchedNews(f) == Announcement(f).NEWSID = watch.news_id
WatchedUser(user_id) == user_id = watch.recipient.user_id

\* `continue` of the announcement loop: the per-announcement locals are
\* rebuilt by the next iteration, `link` keeps its value
Continue(f) ==
    [IdleFrame EXCEPT !.pc = "ann", !.sidx = f.sidx, !.aidx = f.aidx + 1,
                      !.link = f.link, !.raised = f.raised]

\* process_announcements_for_scrip returns to the loop of the sweep
Return(f) ==
    [IdleFrame EXCEPT !.pc = "sweep", !.sidx = f.sidx + 1, !.raised = f.raised]

\* the exception leaves process_announcements_for_scrip and ends the
\* thread of the sweep
RaiseUncaught(f) ==
    [IdleFrame EXCEPT !.pc = "crashed", !.sidx = f.sidx, !.raised = TRUE]

\* an exception inside the try block of process_announcements_for_scrip
\* reaches `except Exception` of the function
Raise(f) ==
    [IdleFrame EXCEPT !.pc = "except", !.sidx = f.sidx, !.raised = TRUE]

\* a dispatch loop that does not move on to the next recipient
NextRecipientAgain(f) ==
    IF f.didx < Len(f.need)
    THEN [f EXCEPT !.pc = "dispatch", !.per_user_len = 0]
    ELSE Continue(f)

\* end of one iteration of the dispatch loop
NextRecipient(f) ==
    IF f.didx < Len(f.need)
    THEN [f EXCEPT !.pc = "dispatch", !.didx = f.didx + 1, !.per_user_len = 0]
    ELSE Continue(f)

\* ------------------------------------------------------------------------
\* Sweep orchestrator (app.py)
\* ------------------------------------------------------------------------

\* trigger_check / trigger_check_manual: threading.Thread(...).start()
Trigger(t) ==
    /\ started < MaxSweeps
    /\ inv[t].pc = "idle"
    /\ \A t2 \in Threads : t2 < t => inv[t2].pc # "idle"
    /\ Cardinality({t2 \in Threads : inv[t2].pc # "idle"}) < world.overlap
    /\ started' = started + 1
    /\ inv' = [inv EXCEPT ![t] = [IdleFrame EXCEPT !.pc = "task"]]
    /\ UNCHANGED << store, world, watch, delivered, failed, call >>

\* announcement_check_task up to its loop
TaskStart(t) ==
    /\ inv[t].pc = "task"
    /\ inv' = [inv EXCEPT ![t] =
                 IF NothingToCheck(monitored_scrips, telegram_recipients)
                 THEN [IdleFrame EXCEPT !.skipped = TRUE]
                 ELSE [IdleFrame EXCEPT !.pc = "sweep", !.sidx = 1]]
    /\ UNCHANGED << store, world, watch, delivered, failed, started, call >>

\* the loop of announcement_check_task is exhausted
SweepDone(t) ==
    /\ inv[t].pc = "sweep"
    /\ inv[t].sidx > Len(monitored_scrips)
    /\ inv' = [inv EXCEPT ![t] = IdleFrame]
    /\ UNCHANGED << store, world, watch, delivered, failed, started, call >>

\* ------------------------------------------------------------------------
\* process_announcements_for_scrip (services/bse_service.py)
\* ------------------------------------------------------------------------

\* requests.get + response.json(): transport or parse failure, no Table, or
\* the Table of the scrip
Fetch(t) ==
    /\ inv[t].pc = "sweep"
    /\ inv[t].sidx <= Len(monitored_scrips)
    /\ \E o \in {"raises", "empty", "table"} :
         inv' = [inv EXCEPT ![t] =
                   CASE o = "raises" -> Raise(@)
                     [] o = "empty"  -> Return(@)
                     [] OTHER        -> [@ EXCEPT !.pc = "ann", !.aidx = 1]]
    /\ UNCHANGED << store, world, watch, delivered, failed, started, call >>

\* `except Exception as e: log_message(...)`, then the function returns
Except(t) ==
    /\ inv[t].pc = "except"
    /\ inv' = [inv EXCEPT ![t] = Return(@)]
    /\ UNCHANGED << store, world, watch, delivered, failed, started, call >>

\* head of `for announcement in data['Table']` with the field checks
NextAnnouncement(t) ==
    /\ inv[t].pc = "ann"
    /\ LET f == inv[t] IN
       inv' = [inv EXCEPT ![t] =
                 IF f.aidx > Len(BseTable(Scrip(f))) THEN Return(f)
                 ELSE LET a == Announcement(f) IN
                      IF a.NEWSID = None \/ a.ATTACHMENTNAME = None THEN Continue(f)
                      ELSE IF a.NEWS_DT.fmt = "missing" THEN Continue(f)
                      ELSE [f EXCEPT
                              !.pc = "filter", !.ridx = 1, !.need = << >>,
                              !.seenAtEval = WatchedNews(f) /\
                                  RowsByNews(store, a.NEWSID, watch.recipient.user_id) # {},
                              !.pdfAtEval = WatchedNews(f) /\
                                  \E r \in RowsByPdf(store, a.ATTACHMENTNAME,
                                                     watch.recipient.user_id) :
                                     r.news_id # a.NEWSID]]
    /\ UNCHANGED << store, world, watch, delivered, failed, started, call >>

\* the decision of the filter loop for one recipient: TRUE when the
\* recipient is appended to users_who_need_notification
NeedsNotification(S, recipient, a, o1, o2) ==
    /\ recipient.user_id # None
    /\ ~ db_check_if_announcement_seen_by_user(S, a.NEWSID, recipient.user_id, o1)
    /\ ~ ( a.ATTACHMENTNAME # None
           /\ db_check_if_pdf_seen_by_user(S, a.ATTACHMENTNAME, recipient.user_id, o2) )

\* a check the loop makes for the recipient cannot be performed; the
\* second query runs only when the first answered False
CheckNotPerformed(S, recipient, a, o1, o2) ==
    /\ recipient.user_id # None
    /\ \/ o1 = "unavailable"
       \/ /\ ~ db_check_if_announcement_seen_by_user(S, a.NEWSID, recipient.user_id, o1)
          /\ o2 = "unavailable"

\* one iteration of `for recipient in recipients` (lines 50-59)
FilterRecipient(t) ==
    /\ inv[t].pc = "filter"
    /\ inv[t].ridx <= Len(telegram_recipients)
    /\ \E o1, o2 \in StoreAnswers :
         LET f == inv[t]
             a == Announcement(f)
             r == FilterRecipientOf(f)
         IN inv' = [inv EXCEPT ![t] =
                      [f EXCEPT
                         !.ridx = f.ridx + 1,
                         !.need = IF NeedsNotification(store, r, a, o1, o2)
                                  THEN Append(f.need, f.ridx) ELSE f.need,
                         !.unchecked = IF WatchedNews(f) /\ r = watch.recipient
                                       THEN CheckNotPerformed(store, r, a, o1, o2)
                                       ELSE f.unchecked]]
    /\ UNCHANGED << store, world, watch, delivered, failed, started, call >>

\* strptime over the three formats: a date string in one of them names a
\* point in time, any other string is not parsed
ParseDate(ann_date_str) ==
    IF ann_date_str.fmt \in {"dmy", "iso_us", "iso"}
    THEN [ok |-> TRUE, at |-> ann_date_str.at]
    ELSE [ok |-> FALSE, at |-> 0]

\* lines 84-135: download of the attachment, memory gate, AI analysis and
\* the caption that results
CaptionKind(pdf_ok, memory_ok, analysis) ==
    IF pdf_ok /\ memory_ok
    THEN IF analysis THEN "ai" ELSE "ai_unavailable"
    ELSE "pdf_failed"

\* a python value is truthy: a string that is not empty
Truthy(v) == v.t = "str" /\ v.s # << >>

\* announcement.get(key): None for a key that is absent
Get(v) == IF v = Absent THEN Null ELSE v

\* announcement.get(key, default)
GetDefault(v, default) == IF v = Absent THEN default ELSE v

\* line 80: announcement.get('NEWSSUB') or announcement.get('HEADLINE', 'N/A')
Headline(a) ==
    IF Truthy(Get(a.NEWSSUB)) THEN Get(a.NEWSSUB)
    ELSE GetDefault(a.HEADLINE, Str(<< "N", "/", "A" >>))

\* the first n characters of a string, s[:n]
Take(s, n) == SubSeq(s, 1, IF Len(s) < n THEN Len(s) ELSE n)

\* width of the title in the fallback captions
TitleWidth == 100

\* {headline[:100]}{"..." if len(headline) > 100 else ""} of a string
Title(headline) ==
    Take(headline.s, TitleWidth)
      \o (IF Len(headline.s) > TitleWidth THEN << ".", ".", "." >> ELSE << >>)

\* slicing and len() raise TypeError on a headline that is not a string
TitleRaises(headline) == headline.t # "str"

\* building final_caption raises: the fallback templates slice the
\* headline; format_structured_telegram_message formats it with str() and
\* reaches its own fallback template only when formatting the analysis raised
CaptionRaises(kind, well_formed, headline) ==
    IF kind = "ai" /\ well_formed THEN FALSE ELSE TitleRaises(headline)

\* lines 84-135 for an eligible announcement
Enriched(f, pdf_ok, memory_ok, analysis, len) ==
    IF CaptionRaises(CaptionKind(pdf_ok, memory_ok, analysis), TRUE,
                     Headline(Announcement(f)))
    THEN Raise(f)
    ELSE [f EXCEPT !.pc = "dispatch", !.didx = 1,
                   !.pdf_bytes = pdf_ok,
                   !.caption = [kind |-> CaptionKind(pdf_ok, memory_ok, analysis),
                                len |-> len]]

\* a cutoff test that also drops the announcement dated at the cutoff
BeforeCutoffInclusive(ann_date_ist, cutoff_time_ist) ==
    ann_date_ist <= cutoff_time_ist

\* line 77: ann_date_ist < cutoff_time_ist
BeforeCutoff(ann_date_ist, cutoff_time_ist) ==
    ann_date_ist < cutoff_time_ist

\* after the filter loop (lines 61-135): empty result, date parsing, the
\* cutoff, and the enrichment of an announcement that passes them
FilterDone(t) ==
    /\ inv[t].pc = "filter"
    /\ inv[t].ridx > Len(telegram_recipients)
    /\ LET f == inv[t]
           naive_date == ParseDate(Announcement(f).NEWS_DT)
       IN IF f.need = << >> \/ ~ naive_date.ok
             \/ BeforeCutoff(naive_date.at, cutoff_time)
          THEN inv' = [inv EXCEPT ![t] = Continue(f)]
          ELSE \E pdf_ok, memory_ok, analysis \in BOOLEAN :
                 \E len \in CaptionLens(CaptionKind(pdf_ok, memory_ok, analysis)) :
                   inv' = [inv EXCEPT ![t] = Enriched(f, pdf_ok, memory_ok, analysis, len)]
    /\ UNCHANGED << store, world, watch, delivered, failed, started, call >>

\* lines 152-166: sign_token and the caption of this recipient; when
\* sign_token raises, `link` keeps what an earlier iteration left in it,
\* and reading it unassigned raises.  send_telegram_document (lines 24-34)
\* downloads the attachment itself when it was handed none, and without
\* it there is no send
Signed(f, signed, pdf_ok) ==
    LET link == IF APP_BASE_URL # ""
                THEN [bound |-> TRUE, url |-> TRUE,
                      user_id |-> Recipient(f).user_id,
                      news_id |-> Announcement(f).NEWSID]
                ELSE [NoLink EXCEPT !.bound = TRUE]
        g == IF signed
             THEN [f EXCEPT !.link = link,
                            !.per_user_len = IF link.url
                                             THEN LinkLineLen + f.caption.len
                                             ELSE f.caption.len]
             ELSE [f EXCEPT !.per_user_len = f.caption.len]
    IN IF ~ signed /\ ~ f.link.bound THEN Raise(f)
       ELSE IF f.pdf_bytes \/ pdf_ok THEN [g EXCEPT !.pc = "post"]
       ELSE NextRecipient(g)

\* one iteration of the dispatch loop up to the sendDocument request
\* (lines 138-166): the SeenRecord of the recipient's user is inserted,
\* then the token is signed and the send prepared
DispatchOutcome(t, signed, pdf_ok) ==
    /\ inv[t].pc = "dispatch"
    /\ \E o \in StoreAnswers :
         LET f == inv[t]
             a == Announcement(f)
             user_id == Recipient(f).user_id
             g == [f EXCEPT !.wrote = IF WatchedNews(f) /\ WatchedUser(user_id)
                                         /\ user_id # None /\ o = "ok"
                                      THEN TRUE ELSE f.wrote]
         IN /\ store' = IF user_id # None
                        THEN db_save_announcement_for_user(store, a.NEWSID, user_id,
                                                           a.ATTACHMENTNAME, o)
                        ELSE store
            /\ inv' = [inv EXCEPT ![t] = Signed(g, signed, pdf_ok)]
    /\ UNCHANGED << world, watch, delivered, failed, started, call >>

Dispatch(t) == \E signed, pdf_ok \in BOOLEAN : DispatchOutcome(t, signed, pdf_ok)

\* a failed send that raises instead of answering False
AfterSendRaising(f, sent) ==
    IF ~ sent THEN Raise(f)
    ELSE IF f.per_user_len <= TELEGRAM_CAPTION_LIMIT THEN NextRecipient(f)
    ELSE Raise(f)

\* what send_document_handling_overflow does once send_telegram_document
\* answered `sent`: False is handed back; a caption within the limit is
\* done; past the limit the follow-up loop reads the undefined `chunks`
AfterSend(f, sent) ==
    IF ~ sent THEN NextRecipient(f)
    ELSE IF f.per_user_len <= TELEGRAM_CAPTION_LIMIT THEN NextRecipient(f)
    ELSE Raise(f)

\* the frame is about to send to the watched recipient for the watched news
Watched(f) == WatchedNews(f) /\ Recipient(f) = watch.recipient

\* the sendDocument request (lines 36-56) and the rest of
\* send_document_handling_overflow
PostOutcome(t, sent) ==
    /\ inv[t].pc = "post"
    /\ LET f == inv[t]
           r == Recipient(f)
           news_id == Announcement(f).NEWSID
       IN /\ delivered' = IF sent /\ Watched(f) THEN delivered + 1 ELSE delivered
          /\ failed' = IF ~ sent /\ Watched(f)
                          /\ RowsByNews(store, news_id, r.user_id) # {}
                       THEN TRUE ELSE failed
          /\ inv' = [inv EXCEPT ![t] = AfterSend(f, sent)]
    /\ UNCHANGED << store, world, watch, started, call >>

Post(t) == \E sent \in BOOLEAN : PostOutcome(t, sent)

\* ------------------------------------------------------------------------
\* Specifications
\* ------------------------------------------------------------------------
Step(t) ==
    \/ Trigger(t)
    \/ TaskStart(t)
    \/ SweepDone(t)
    \/ Fetch(t)
    \/ Except(t)
    \/ NextAnnouncement(t)
    \/ FilterRecipient(t)
    \/ FilterDone(t)
    \/ Dispatch(t)
    \/ Post(t)

Next == \E t \in Threads : Step(t)

Spec == Init /\ [][Next]_vars

PcValues == {"idle", "task", "sweep", "except", "ann", "filter",
             "dispatch", "post", "crashed"}

TypeOK ==
    /\ store \in [Rows -> Nat]
    /\ world \in Worlds
    /\ delivered \in Nat
    /\ failed \in BOOLEAN
    /\ started \in 0..MaxSweeps
    /\ \A t \in Threads : inv[t].pc \in PcValues

\* ------------------------------------------------------------------------
\* Unit level: one call of a function, on texts spelled out character by
\* character (services/telegram_service.py)
\* ------------------------------------------------------------------------

\* the sweep does not run while a function is followed on its own
SweepAtRest ==
    /\ store = [r \in Rows |-> 0]
    /\ world = [scrips |-> << "s1" >>, overlap |-> 2, outages |-> FALSE,
                recipients |-> << [user_id |-> "u1", chat_id |-> "c1"] >>]
    /\ watch = [recipient |-> [user_id |-> "u1", chat_id |-> "c1"], news_id |-> "n1"]
    /\ delivered = 0
    /\ failed = FALSE
    /\ started = 0
    /\ inv = [t \in Threads |-> IdleFrame]

\* texts of at most n characters over letters and line breaks
RECURSIVE Texts(_)
Texts(n) ==
    IF n = 0 THEN { << >> }
    ELSE LET shorter == Texts(n - 1)
         IN shorter \cup { Append(s, c) : s \in shorter, c \in {"a", "\n"} }

\* limits the texts are split at: the caption limit, scaled to the texts
Limits == {4, 5}

\* view_url: None, a link that fits in a first caption, one that does not
ViewUrls == { Null, Str(<< "u" >>), Str(<< "u", "u", "u", "u", "u" >>) }

\* text.rfind(ch): the last index (from 0) at which ch occurs, -1 if none
RFind(text, ch) ==
    LET at == {i \in 1..Len(text) : text[i] = ch}
    IN IF at = {} THEN 0 - 1 ELSE (CHOOSE i \in at : \A j \in at : j <= i) - 1

\* int(0.6 * n)
SixTenths(n) == (6 * n) \div 10

\* the loop of _split_text from position start (counted from 0)
RECURSIVE SplitFrom(_, _, _)
SplitFrom(text, max_len, start) ==
    IF start >= Len(text) THEN << >>
    ELSE LET end0 == IF Len(text) < start + max_len THEN Len(text)
                     ELSE start + max_len
             nl == RFind(SubSeq(text, start + 1, end0), "\n")
             end == IF end0 < Len(text) /\ nl >= 0
                       /\ start + nl > start + SixTenths(end0 - start)
                    THEN start + nl + 1 ELSE end0
         IN << SubSeq(text, start + 1, end) >> \o SplitFrom(text, max_len, end)

_split_text(text, max_len) ==
    IF Len(text) <= max_len THEN << text >> ELSE SplitFrom(text, max_len, 0)

\* f"\n\n... <a href=\"{view_url}\">open</a>": the markup around the link,
\* scaled to two line breaks before it
link_line(view_url) == << "\n", "\n" >> \o view_url.s

\* a headroom that leaves no room for the link line
HeadroomUntrimmed(limit, line) == limit

\* max(0, limit - len(link_line))
Headroom(limit, line) == IF limit - Len(line) > 0 THEN limit - Len(line) ELSE 0

\* lines 84-89: the caption of the document on the over-limit path
FirstCaption(caption, limit, view_url) ==
    IF Truthy(view_url)
    THEN Take(caption, Headroom(limit, link_line(view_url))) \o link_line(view_url)
    ELSE Take(caption, limit)

\* calls of send_document_handling_overflow
OverflowCalls ==
    [ fn : {"overflow"}, pc : {"called"}, caption : Texts(MaxText), limit : Limits,
      view_url : ViewUrls, pdf_bytes : BOOLEAN, sends : { << >> },
      sent : {FALSE}, result : {None} ]

\* outcome of send_telegram_document: it returns False before any request
\* (the attachment could not be downloaded), the request is refused or
\* raises, or the channel accepts the document
DocumentOutcomes(pdf_bytes) ==
    IF pdf_bytes THEN {"refused", "ok"} ELSE {"no_pdf", "refused", "ok"}

\* lines 78-92: the document send of send_document_handling_overflow
OverflowSend ==
    /\ call.fn = "overflow"
    /\ call.pc = "called"
    /\ \E o \in DocumentOutcomes(call.pdf_bytes) :
         LET over == Len(call.caption) > call.limit
             body == IF over
                     THEN FirstCaption(call.caption, call.limit, call.view_url)
                     ELSE call.caption
             request == [kind |-> "document", body |-> body,
                         view_url |-> call.view_url, ok |-> o = "ok"]
         IN call' = [call EXCEPT
                       !.sends = IF o = "no_pdf" THEN @ ELSE Append(@, request),
                       !.sent = (o = "ok"),
                       !.pc = IF over /\ o = "ok" THEN "followups" ELSE "returned",
                       !.result = IF over /\ o = "ok" THEN None
                                  ELSE IF o = "ok" THEN "True" ELSE "False"]
    /\ UNCHANGED << store, world, watch, delivered, failed, started, inv >>

\* lines 93-95: `for extra in chunks[1:]` reads a name that is bound
\* nowhere in the function or the module, which raises NameError
OverflowFollowUps ==
    /\ call.fn = "overflow"
    /\ call.pc = "followups"
    /\ call' = [call EXCEPT !.pc = "raised", !.result = "NameError"]
    /\ UNCHANGED << store, world, watch, delivered, failed, started, inv >>

\* a string of n characters
Chars(n) == [i \in 1..n |-> "h"]

\* values of NEWSSUB and HEADLINE in a record of the source: absent, null,
\* empty, short, as long as the title is wide, and longer
HeadlineValues ==
    { Absent, Null, Str(<< >>), Str(Chars(1)), Str(Chars(TitleWidth)),
      Str(Chars(TitleWidth + 1)) }

\* outcomes of the AI analysis: pdf_genai raises, returns None, returns an
\* empty object, returns an object with a field of a type the formatter
\* cannot handle, or returns a well-formed object
AiOutcomes == {"raises", "null", "empty", "malformed", "ok"}

\* analyze_pdf_bytes_with_gemini: an exception is logged and None
\* returned, `json_data or None` turns an empty object into None
analyze_pdf_bytes_with_gemini(ai) == ai \in {"malformed", "ok"}

\* outcomes of requests.get(pdf_url) at line 87
DownloadOutcomes == {"raises", "status", "empty", "ok"}

\* calls of the caption builder (lines 80-135) for one record of the source
CaptionCalls ==
    [ fn : {"caption"}, pc : {"called"}, scrip_code : {"s1"},
      NEWSSUB : HeadlineValues, HEADLINE : HeadlineValues,
      download : DownloadOutcomes, memory_ok : BOOLEAN, ai : AiOutcomes,
      final_caption : { [kind |-> "none", scrip |-> None, title |-> << >>] } ]

\* str(text)
PyStr(v) ==
    IF v.t \in {"str", "num"} THEN v.s ELSE << "N", "o", "n", "e" >>

\* truncate_field of format_structured_telegram_message
truncate_field(text, max_len) ==
    IF Len(text) <= max_len THEN text
    ELSE SubSeq(text, 1, max_len - 3) \o << ".", ".", "." >>

\* the title line of final_caption: the structured message formats the
\* title with str() and cuts it at 60, the fallback templates slice the
\* headline at 100
CaptionTitle(kind, well_formed, headline) ==
    IF kind = "ai" /\ well_formed THEN truncate_field(PyStr(headline), 60)
    ELSE Title(headline)

\* lines 80-135 for one record
BuildCaption ==
    /\ call.fn = "caption"
    /\ call.pc = "called"
    /\ LET headline == Headline(call)
           pdf_ok == call.download = "ok"
           analysis == pdf_ok /\ call.memory_ok
                         /\ analyze_pdf_bytes_with_gemini(call.ai)
           kind == CaptionKind(pdf_ok, call.memory_ok, analysis)
           well_formed == call.ai = "ok"
       IN call' = IF CaptionRaises(kind, well_formed, headline)
                  THEN [call EXCEPT !.pc = "raised"]
                  ELSE [call EXCEPT
                          !.pc = "returned",
                          !.final_caption =
                              [kind |-> IF kind = "ai" /\ ~ well_formed
                                        THEN "ai_unavailable" ELSE kind,
                               scrip |-> call.scrip_code,
                               title |-> CaptionTitle(kind, well_formed, headline)]]
    /\ UNCHANGED << store, world, watch, delivered, failed, started, inv >>

\* ------------------------------------------------------------------------
\* Unit level: deep-link tokens (services/security.py)
\* ------------------------------------------------------------------------

\* values of AppConfig.CRON_SECRET_KEY
CronSecrets == {"", "k1", "k2"}

\* AppConfig.CRON_SECRET_KEY or "default-secret"
Secret(cron_secret_key) ==
    IF cron_secret_key = "" THEN "default-secret" ELSE cron_secret_key

\* int(time.time()) of a clock that counts half seconds
UnixTime(now) == now \div 2

\* _b64url(json.dumps(body)): a string from which the body can be read back
Encoded(body) == [json |-> TRUE, body |-> body]

\* a payload segment that is not the encoding of any body
Garbled == [json |-> FALSE, body |-> [user_id |-> None, news_id |-> None, exp |-> 0]]

\* hmac.new(secret, encoded, sha256): equal for equal key and message only
Hmac(secret, encoded) == [key |-> secret, msg |-> encoded]

\* lines 22-29
sign_token(payload, expires_in_seconds, cron_secret_key, now) ==
    LET body == [user_id |-> payload.user_id, news_id |-> payload.news_id,
                 exp |-> UnixTime(now) + expires_in_seconds]
        encoded == Encoded(body)
    IN [encoded |-> encoded, sig |-> Hmac(Secret(cron_secret_key), encoded)]

\* verify_token answers None
Invalid == [valid |-> FALSE, user_id |-> None, news_id |-> None, exp |-> 0]

\* a verification that does not compare the signature
verify_token_unsigned(token, cron_secret_key, now) ==
    IF ~ token.encoded.json THEN Invalid
    ELSE IF token.encoded.body.exp < UnixTime(now) THEN Invalid
    ELSE [valid |-> TRUE, user_id |-> token.encoded.body.user_id,
          news_id |-> token.encoded.body.news_id, exp |-> token.encoded.body.exp]

\* lines 32-44: signature, then decoding, then expiry; every exception is
\* answered with None
verify_token(token, cron_secret_key, now) ==
    IF token.sig # Hmac(Secret(cron_secret_key), token.encoded) THEN Invalid
    ELSE IF ~ token.encoded.json THEN Invalid
    ELSE IF token.encoded.body.exp < UnixTime(now) THEN Invalid
    ELSE [valid |-> TRUE, user_id |-> token.encoded.body.user_id,
          news_id |-> token.encoded.body.news_id, exp |-> token.encoded.body.exp]

\* payloads signed for deep links
Payloads == [user_id : Users, news_id : {"n1"}]

\* the strings presented to verify_token for a signed token: the token, the
\* token with another signature segment (made with another key, or copied
\* from the token of another body), the token with another payload
\* segment (another user, a later expiry, or no encoding at all)
Presented(token) ==
    { [as |-> "signed", token |-> token] }
    \cup { [as |-> "signature", token |-> [token EXCEPT !.sig = x]] :
             x \in { Hmac("attacker", token.encoded),
                     Hmac(token.sig.key, Garbled) } }
    \cup { [as |-> "payload", token |-> [token EXCEPT !.encoded = e]] :
             e \in { Encoded([token.encoded.body EXCEPT !.user_id = "u0"]),
                     Encoded([token.encoded.body EXCEPT !.exp = @ + 1000]),
                     Garbled } }

\* calls of sign_token, followed by verify_token at a later reading of the
\* clock
TokenCalls ==
    [ fn : {"token"}, pc : {"called"}, payload : Payloads, ttl : {1, 2},
      sign_secret : CronSecrets, verify_secret : CronSecrets,
      now : {0, 1}, signed_at : {0}, token : {None}, presented : {None},
      result : {Invalid} ]

\* sign_token at the current reading of the clock; what is later handed to
\* verify_token is chosen here
SignToken ==
    /\ call.fn = "token"
    /\ call.pc = "called"
    /\ LET token == sign_token(call.payload, call.ttl, call.sign_secret, call.now)
       IN \E p \in Presented(token) :
            call' = [call EXCEPT !.pc = "signed", !.signed_at = call.now,
                                 !.token = token, !.presented = p]
    /\ UNCHANGED << store, world, watch, delivered, failed, started, inv >>

\* half a second passes
ClockTick ==
    /\ call.fn = "token"
    /\ call.pc = "signed"
    /\ call.now < MaxClock
    /\ call' = [call EXCEPT !.now = @ + 1]
    /\ UNCHANGED << store, world, watch, delivered, failed, started, inv >>

\* verify_token at the current reading of the clock
VerifyToken ==
    /\ call.fn = "token"
    /\ call.pc = "signed"
    /\ call' = [call EXCEPT
                  !.pc = "verified",
                  !.result = verify_token(call.presented.token,
                                          call.verify_secret, call.now)]
    /\ UNCHANGED << store, world, watch, delivered, failed, started, inv >>

\* ------------------------------------------------------------------------
\* Unit level: the memory gate of the enrichment (bse_service.py lines
\* 95-135, ai_service.py line 26, services/memory_guard.py)
\* ------------------------------------------------------------------------

\* AppConfig.MEMORY_SOFT_LIMIT_MB, in MB
MEMORY_SOFT_LIMIT_MB == 420

\* readings of get_process_memory_mb around the soft limit
MemoryValues ==
    { MEMORY_SOFT_LIMIT_MB - 1, MEMORY_SOFT_LIMIT_MB, MEMORY_SOFT_LIMIT_MB + 1 }

\* is_memory_ok(soft=True), lines 68-75
is_memory_ok(mem) == mem <= MEMORY_SOFT_LIMIT_MB

\* should_allow_ai, lines 82-85
should_allow_ai(disable_ai_on_low_memory, mem) ==
    IF ~ disable_ai_on_low_memory THEN TRUE ELSE is_memory_ok(mem)

\* no reading of the memory taken yet
NoReading == 0

\* enrichments of one announcement: the record's headline, whether the
\* attachment was downloaded, AppConfig.DISABLE_AI_ON_LOW_MEMORY and the
\* memory of the process when the gate at line 95 is reached
GateCalls ==
    [ fn : {"gate"}, pc : {"called"}, scrip_code : {"s1"},
      NEWSSUB : {Null, Str(Chars(1))}, HEADLINE : {Absent, Null},
      pdf_bytes : BOOLEAN, disable_ai_on_low_memory : BOOLEAN,
      memory : MemoryValues, gate_memory : {NoReading},
      ai_gate_memory : {NoReading}, invoked : {FALSE},
      final_caption : {"none"} ]

\* the caption is built and control goes on to the dispatch loop, unless
\* building it raises
CaptionBuilt(c, kind) ==
    IF CaptionRaises(kind, TRUE, Headline(c))
    THEN [c EXCEPT !.pc = "raised"]
    ELSE [c EXCEPT !.pc = "dispatch", !.final_caption = kind]

\* the memory of the process changes while the enrichment runs
MemoryChange ==
    /\ call.fn = "gate"
    /\ call.pc \in {"called", "analyze", "in_flight"}
    /\ \E mem \in MemoryValues \ {call.memory} :
         call' = [call EXCEPT !.memory = mem]
    /\ UNCHANGED << store, world, watch, delivered, failed, started, inv >>

\* line 95: if pdf_bytes and is_memory_ok(soft=True), else the template of
\* lines 120-135
MemoryGate ==
    /\ call.fn = "gate"
    /\ call.pc = "called"
    /\ LET c == [call EXCEPT !.gate_memory = call.memory]
       IN call' = IF call.pdf_bytes /\ is_memory_ok(call.memory)
                  THEN [c EXCEPT !.pc = "analyze"]
                  ELSE CaptionBuilt(c, "pdf_failed")
    /\ UNCHANGED << store, world, watch, delivered, failed, started, inv >>

\* ai_service.py line 26: `if not should_allow_ai(): return None`, else
\* the call of the summarizer begins
AiGate ==
    /\ call.fn = "gate"
    /\ call.pc = "analyze"
    /\ LET c == [call EXCEPT !.ai_gate_memory = call.memory]
       IN call' = IF should_allow_ai(call.disable_ai_on_low_memory, call.memory)
                  THEN [c EXCEPT !.pc = "in_flight", !.invoked = TRUE]
                  ELSE CaptionBuilt(c, "ai_unavailable")
    /\ UNCHANGED << store, world, watch, delivered, failed, started, inv >>

\* the summarizer returns: an analysis, or none
AiReturns ==
    /\ call.fn = "gate"
    /\ call.pc = "in_flight"
    /\ \E analysis \in BOOLEAN :
         call' = CaptionBuilt(call, CaptionKind(TRUE, TRUE, analysis))
    /\ UNCHANGED << store, world, watch, delivered, failed, started, inv >>

\* ------------------------------------------------------------------------
\* Unit level: the shared-secret trigger (app.py, trigger_check)
\* ------------------------------------------------------------------------

\* values of CRON_SECRET_KEY at app.py line 19: unset, empty, set
ConfiguredSecrets == { Null, Str(<< >>), Str(<< "k", "1" >>) }

\* values of the path parameter <secret_key>: a segment of the path is
\* never empty
PathSecrets ==
    { Str(<< "k", "1" >>), Str(<< "k", "2" >>), Str(<< "N", "o", "n", "e" >>) }

\* a test that accepts every path parameter once a secret is configured
AuthorizedAnyKey(cron_secret_key, secret_key) == Truthy(cron_secret_key)

\* the negation of line 371: not CRON_SECRET_KEY or secret_key != CRON_SECRET_KEY
Authorized(cron_secret_key, secret_key) ==
    Truthy(cron_secret_key) /\ secret_key = cron_secret_key

\* requests of GET /trigger_check/<secret_key>
TriggerCalls ==
    [ fn : {"trigger"}, pc : {"called"}, cron_secret_key : ConfiguredSecrets,
      secret_key : PathSecrets, response : {0}, thread : {"none"} ]

\* lines 371-376: the unauthorized response, or Thread(...).start()
TriggerCheck ==
    /\ call.fn = "trigger"
    /\ call.pc = "called"
    /\ call' = IF Authorized(call.cron_secret_key, call.secret_key)
               THEN [call EXCEPT !.pc = "started", !.thread = "running"]
               ELSE [call EXCEPT !.pc = "responded", !.response = 403]
    /\ UNCHANGED << store, world, watch, delivered, failed, started, inv >>

\* line 377: return "Check triggered.", 200
TriggerRespond ==
    /\ call.fn = "trigger"
    /\ call.pc = "started"
    /\ call' = [call EXCEPT !.pc = "responded", !.response = 200]
    /\ UNCHANGED << store, world, watch, delivered, failed, started, inv >>

\* the thread started at line 376 runs announcement_check_task to its end
TriggeredSweepEnds ==
    /\ call.fn = "trigger"
    /\ call.thread = "running"
    /\ call' = [call EXCEPT !.thread = "finished"]
    /\ UNCHANGED << store, world, watch, delivered, failed, started, inv >>



\* ------------------------------------------------------------------------
\* Unit level: the periodic scheduler (services/scheduler_service.py)
\* ------------------------------------------------------------------------

\* threads that call start_scheduler
Callers == {1, 2}

\* background threads that start_scheduler can have started
LoopIds == {1, 2}

\* _scheduler_thread is None
NoThread == 0

\* a loop that has not been started
NoLoop == [pc |-> "none", clock |-> 0, running |-> 0]

\* a caller that is not inside start_scheduler
NoCaller == [pc |-> "idle", t |-> NoThread, calls |-> 0]

\* the scheduler threads alive: a daemon thread on `while True` ends with
\* the process only
Alive(loops) == { l \in LoopIds : loops[l].pc # "none" }

\* a loop that starts its next tick without waiting for task() to return
TickDueUnawaited(loop, every_seconds) ==
    loop.pc # "none" /\ loop.clock >= every_seconds

\* lines 17-23: the next tick starts when task() has returned (or raised)
\* and time.sleep(every_seconds) has returned
TickDue(loop, every_seconds) ==
    loop.pc = "sleep" /\ loop.clock >= every_seconds

\* the module after import, and the interval the callers pass
SchedulerCalls ==
    [ fn : {"scheduler"}, every_seconds : {1, 2}, _scheduler_thread : {NoThread},
      callers : {[c \in Callers |-> NoCaller]},
      loops : {[l \in LoopIds |-> NoLoop]} ]

\* lines 12-14: `if _scheduler_thread and _scheduler_thread.is_alive()`
SchedulerCheck(c) ==
    /\ call.fn = "scheduler"
    /\ call.callers[c].pc = "idle"
    /\ call.callers[c].calls < MaxCalls
    /\ call' = [call EXCEPT
                  !.callers[c].calls = @ + 1,
                  !.callers[c].pc =
                      IF call._scheduler_thread # NoThread
                         /\ call._scheduler_thread \in Alive(call.loops)
                      THEN "idle" ELSE "checked"]
    /\ UNCHANGED << store, world, watch, delivered, failed, started, inv >>

\* lines 25-26: Thread(target=_loop).start(); the loop enters its first tick
SchedulerStart(c) ==
    /\ call.fn = "scheduler"
    /\ call.callers[c].pc = "checked"
    /\ LET t == Cardinality(Alive(call.loops)) + 1
       IN call' = [call EXCEPT
                     !.callers[c].pc = "started",
                     !.callers[c].t = t,
                     !.loops[t] = [pc |-> "task", clock |-> 0, running |-> 1]]
    /\ UNCHANGED << store, world, watch, delivered, failed, started, inv >>

\* line 27: _scheduler_thread = t
SchedulerAssign(c) ==
    /\ call.fn = "scheduler"
    /\ call.callers[c].pc = "started"
    /\ call' = [call EXCEPT
                  !._scheduler_thread = call.callers[c].t,
                  !.callers[c].pc = "idle",
                  !.callers[c].t = NoThread]
    /\ UNCHANGED << store, world, watch, delivered, failed, started, inv >>

\* line 20 returns, or raises and line 22 logs: line 23 begins to sleep
TaskEnds(l) ==
    /\ call.fn = "scheduler"
    /\ call.loops[l].pc = "task"
    /\ call' = [call EXCEPT
                  !.loops[l] = [pc |-> "sleep", clock |-> 0,
                                running |-> call.loops[l].running - 1]]
    /\ UNCHANGED << store, world, watch, delivered, failed, started, inv >>

\* lines 17-20: the next iteration of the loop calls task()
PeriodicTick(l) ==
    /\ call.fn = "scheduler"
    /\ TickDue(call.loops[l], call.every_seconds)
    /\ call.loops[l].running < MaxOverlap
    /\ call' = [call EXCEPT
                  !.loops[l] = [pc |-> "task", clock |-> 0,
                                running |-> call.loops[l].running + 1]]
    /\ UNCHANGED << store, world, watch, delivered, failed, started, inv >>

\* a second passes for every scheduler thread, in task() or asleep
SecondPasses ==
    /\ call.fn = "scheduler"
    /\ \E l \in Alive(call.loops) : call.loops[l].clock < MaxWait
    /\ call' = [call EXCEPT
                  !.loops = [l \in LoopIds |->
                               IF l \in Alive(call.loops) /\ call.loops[l].clock < MaxWait
                               THEN [call.loops[l] EXCEPT !.clock = @ + 1]
                               ELSE call.loops[l]]]
    /\ UNCHANGED << store, world, watch, delivered, failed, started, inv >>

\* one step of a caller of start_scheduler or of a scheduler thread
SchedulerStep ==
    \/ \E c \in Callers : SchedulerCheck(c) \/ SchedulerStart(c) \/ SchedulerAssign(c)
    \/ \E l \in LoopIds : TaskEnds(l) \/ PeriodicTick(l)
    \/ SecondPasses

\* ------------------------------------------------------------------------
\* Unit level: the quote merge of analyze_pdf_bytes_with_gemini
\* (ai_service.py lines 47-71)
\* ------------------------------------------------------------------------

\* a python number, by its decimal digits
Num(chars) == [t |-> "num", s |-> chars]

\* the string 'N/A'
NA == Str(<< "N", "/", "A" >>)

\* values the summarizer leaves in a field of json_data: none, blank,
\* 'N/A', or a value of its own
AiFieldValues == { Null, Str(<< >>), NA, Str(<< "v" >>) }

\* json_data as the summarizer returned it
AiFields ==
    [ current_stock_price : AiFieldValues, price_change : AiFieldValues,
      market_cap : AiFieldValues, company_name : AiFieldValues ]

\* yahoo_data of a quote that was fetched
Quotes ==
    [ current_price : { Null, NA, Num(<< "5" >>) },
      day_change_percent : { Null, Num(<< "2" >>) },
      day_change : { Null, Num(<< "1" >>) },
      market_cap : { Null, Str(<< "c" >>) },
      company_name : { Null, Str(<< "n" >>) } ]

\* str.strip() of a string
RECURSIVE Strip(_)
Strip(s) ==
    IF s = << >> THEN s
    ELSE IF Head(s) = " " THEN Strip(Tail(s))
    ELSE IF s[Len(s)] = " " THEN Strip(SubSeq(s, 1, Len(s) - 1))
    ELSE s

\* str(value or '').strip()
StrOrBlank(v) == IF Truthy(v) THEN Strip(v.s) ELSE << >>

\* value not in (None, 'N/A')
Usable(v) == v # Null /\ v # NA

\* lines 52-56
MergedPrice(ai, yahoo_data) ==
    IF StrOrBlank(ai) \in { << >>, NA.s } /\ Usable(yahoo_data.current_price)
    THEN Str(PyStr(yahoo_data.current_price))
    ELSE ai

\* lines 58-65
MergedChange(ai, yahoo_data) ==
    IF StrOrBlank(ai) # << >> THEN ai
    ELSE IF Usable(yahoo_data.day_change_percent)
    THEN IF yahoo_data.day_change_percent.t = "num"
         THEN Str(yahoo_data.day_change_percent.s \o << "%" >>)
         ELSE Str(PyStr(yahoo_data.day_change_percent))
    ELSE IF Usable(yahoo_data.day_change)
    THEN Str(PyStr(yahoo_data.day_change))
    ELSE ai

\* lines 67-71: `if not json_data.get(k) and yahoo_data.get(k)`
MergedIfFalsy(ai, quote) ==
    IF ~ Truthy(ai) /\ Truthy(quote) THEN quote ELSE ai

\* calls of the merge: json_data of the summarizer, yahoo_data, and
\* whether yahoo_data is there and carries no 'error'
MergeCalls ==
    [ fn : {"merge"}, pc : {"called"}, json_data : AiFields,
      yahoo_data : Quotes, quoted : BOOLEAN, merged : {None} ]

\* lines 50-71
MergeQuote ==
    /\ call.fn = "merge"
    /\ call.pc = "called"
    /\ LET j == call.json_data
           y == call.yahoo_data
       IN call' = [call EXCEPT
                     !.pc = "merged",
                     !.merged =
                        IF ~ call.quoted THEN j
                        ELSE [ current_stock_price |->
                                 MergedPrice(j.current_stock_price, y),
                               price_change |-> MergedChange(j.price_change, y),
                               market_cap |->
                                 MergedIfFalsy(j.market_cap, y.market_cap),
                               company_name |->
                                 MergedIfFalsy(j.company_name, y.company_name) ]]
    /\ UNCHANGED << store, world, watch, delivered, failed, started, inv >>



UnitInit ==
    /\ SweepAtRest
    /\ call \in OverflowCalls \cup CaptionCalls \cup TokenCalls
                 \cup GateCalls
                 \cup TriggerCalls
                 \cup SchedulerCalls
                 \cup MergeCalls

UnitNext ==
    \/ OverflowSend
    \/ OverflowFollowUps
    \/ BuildCaption
    \/ SignToken
    \/ ClockTick
    \/ VerifyToken
    \/ MemoryChange
    \/ MemoryGate
    \/ AiGate
    \/ AiReturns
    \/ TriggerCheck
    \/ TriggerRespond
    \/ TriggeredSweepEnds
    \/ SchedulerStep
    \/ MergeQuote

UnitSpec == UnitInit /\ [][UnitNext]_vars

\* ------------------------------------------------------------------------
\* Properties
\* ------------------------------------------------------------------------

\* thread t is about to issue the sendDocument request to the watched
\* recipient for the watched announcement
AtPost(t) == inv[t].pc = "post" /\ Watched(inv[t])

\* the watched recipient is in users_who_need_notification of the frame
InNeed(f) ==
    \E k \in 1..Len(f.need) : telegram_recipients[f.need[k]] = watch.recipient

\* C1: when a SeenRecord for (U, N) is in the store at the time an
\* invocation begins to evaluate the announcement N, that invocation makes
\* no channel send for N to a recipient of U.
C1_NoSendWhenSeen ==
    \A t \in Threads : inv[t].seenAtEval => ~ AtPost(t)

\* C2: when U has a SeenRecord with attachment name X under another
\* news_id at the time an invocation begins to evaluate an announcement
\* with attachment X, the invocation sends nothing for it to a recipient
\* of U and inserts no SeenRecord for U.
C2_NoSendWhenPdfSeen ==
    \A t \in Threads :
        inv[t].pdfAtEval => ~ AtPost(t) /\ ~ inv[t].wrote

\* the table S without the rows of every user other than user_id
OwnRows(S, user_id) ==
    [r \in Rows |-> IF r.user_id = user_id THEN S[r] ELSE 0]

\* C3: the filter decides for a recipient of user B from B's own rows
\* only: with no row of B for the news_id or the attachment the recipient
\* is appended whatever rows other users have, and the decision is the
\* same on the table with every other user's rows removed.
C3_TenantIsolation ==
    [][ \A t \in Threads :
          (inv[t].pc = "filter" /\ inv'[t].pc = "filter"
             /\ inv'[t].ridx = inv[t].ridx + 1)
          => LET f == inv[t]
                 a == Announcement(f)
                 r == FilterRecipientOf(f)
                 own == OwnRows(store, r.user_id)
             IN /\ ( \A x \in Rows : store[x] > 0 /\ x.user_id = r.user_id
                                      => /\ x.news_id # a.NEWSID
                                         /\ x.pdf_name # a.ATTACHMENTNAME )
                   => inv'[t].need = Append(f.need, f.ridx)
                /\ \A o1, o2 \in StoreOutcome :
                     NeedsNotification(store, r, a, o1, o2)
                       = NeedsNotification(own, r, a, o1, o2) ]_vars

\* C3 witness: another user has a row for the announcement, the recipient's
\* user has none, and the recipient was appended.
C3_Witness ==
    \E t \in Threads :
        /\ inv[t].pc = "filter"
        /\ inv[t].ridx = 3
        /\ inv[t].need = << 2 >>
        /\ telegram_recipients[2].user_id = "u2"
        /\ \E x \in Rows : store[x] > 0 /\ x.user_id = "u1"
                           /\ x.news_id = Announcement(inv[t]).NEWSID
        /\ \A x \in Rows : x.user_id = "u2" => store[x] = 0

\* C4: at every channel send to a recipient of U for N, this invocation
\* has inserted a SeenRecord for (U, N) and the insert took effect.
C4_WriteBeforeSend ==
    \A t \in Threads : AtPost(t) => inv[t].wrote

\* C5 as claimed: when sweeps overlap (and the store answers every call),
\* a recipient receives the document for a news_id at most once in total.
C5_AtMostOnceInTotal ==
    (world.overlap > 1 /\ ~ world.outages) => delivered <= 1

\* C5 amended: a recipient receives the document for a news_id at most
\* once per sweep, so never more often than sweeps were started.
C5_AtMostOncePerSweep == delivered <= started

\* C5 witness: two overlapping sweeps have both delivered the document.
C5_Witness ==
    /\ delivered = 2
    /\ \A t \in Threads : inv[t].pc \notin {"idle", "task"}

\* C6: the store holds at most one SeenRecord per (user_id, news_id).
C6_OneRecordPerUserNews ==
    \A u \in Users : \A n \in NewsIds :
        \A x, y \in Rows :
            (x.user_id = u /\ x.news_id = n /\ y.user_id = u /\ y.news_id = n
               /\ store[x] > 0 /\ store[y] > 0)
            => x = y /\ store[x] = 1

\* C7: a recipient for whom a dedup check could not be performed is not
\* eligible: it is not put in users_who_need_notification and nothing is
\* sent to it for the announcement.
C7_FailClosed ==
    \A t \in Threads :
        inv[t].unchecked => ~ InNeed(inv[t]) /\ ~ AtPost(t)

\* C8: once a send to a recipient for N has failed with the SeenRecord
\* written, no send to that recipient for N is attempted again, in this
\* sweep or in a sweep that follows it.
C8_NoSendAfterFailure ==
    (world.overlap = 1 /\ failed) => \A t \in Threads : ~ AtPost(t)

\* C9: a sendDocument request that fails, with a caption of any length,
\* hands the loop on to the next recipient, and after the last recipient
\* to the next announcement of the same scrip.
C9_SendFailureIsolated ==
    [][ \A t \in Threads :
          PostOutcome(t, FALSE)
          => LET f == inv[t]
                 g == inv'[t]
             IN /\ g.sidx = f.sidx
                /\ g.raised = f.raised
                /\ IF f.didx < Len(f.need)
                   THEN g.pc = "dispatch" /\ g.aidx = f.aidx
                        /\ g.need = f.need /\ g.didx = f.didx + 1
                   ELSE g.pc = "ann" /\ g.aidx = f.aidx + 1 ]_vars

\* C9 witness: in the first sweep the send to the watched recipient failed
\* on the over-limit path and the loop is at the next recipient.
C9_Witness ==
    \E t \in Threads :
        /\ started = 1
        /\ failed
        /\ inv[t].pc = "dispatch"
        /\ inv[t].didx = 2
        /\ ~ inv[t].raised
        /\ inv[t].caption.len + LinkLineLen > TELEGRAM_CAPTION_LIMIT
        /\ WatchedNews(inv[t])
        /\ telegram_recipients[inv[t].need[1]] = watch.recipient

\* frames inside process_announcements_for_scrip
InScrip(f) == f.pc \in {"ann", "filter", "dispatch", "post", "except"}

\* C10: an exception raised while a scrip is processed ends in the handler
\* of process_announcements_for_scrip; the function returns, the thread of
\* the sweep goes on with the next scrip, and the sweep ends only after
\* the last scrip.
C10_ExceptionConfined ==
    [][ \A t \in Threads :
          LET f == inv[t]
              g == inv'[t]
          IN /\ g.pc # "crashed"
             /\ (f.pc = "except" /\ g # f)
                  => g.pc = "sweep" /\ g.sidx = f.sidx + 1
             /\ (InScrip(f) /\ InScrip(g)) => g.sidx = f.sidx
             /\ (f.pc = "sweep" /\ g.pc = "idle")
                  => f.sidx = Len(monitored_scrips) + 1 ]_vars

\* C10 witness: after an exception in the first scrip the sweep is
\* evaluating the table of the second scrip.
C10_Witness ==
    \E t \in Threads :
        /\ inv[t].raised
        /\ inv[t].sidx = 2
        /\ inv[t].pc = "filter"

\* frames inside the dispatch loop of an announcement
InDispatchLoop(f) == f.pc \in {"dispatch", "post"}

\* every recipient in users_who_need_notification belongs to one user
OneUserNeeds(f) ==
    \A j, k \in 1..Len(f.need) :
        telegram_recipients[f.need[j]].user_id = telegram_recipients[f.need[k]].user_id

\* C11: when two or more recipients of one user need notice for an
\* announcement, the dispatch loop reaches every one of them with the same
\* rendered caption: it is left only after the last of them, and never by
\* an exception raised before the send to a recipient.
C11_EveryRecipientOfUser ==
    [][ \A t \in Threads :
          LET f == inv[t]
              g == inv'[t]
          IN (InDispatchLoop(f) /\ Len(f.need) >= 2 /\ OneUserNeeds(f))
             => /\ InDispatchLoop(g)
                     => g.need = f.need /\ g.caption = f.caption
                /\ ~ InDispatchLoop(g)
                     => /\ f.didx = Len(f.need)
                        /\ f.pc = "dispatch" => g.pc # "except" ]_vars

\* the call of send_document_handling_overflow is over, its caption was
\* longer than the limit and the channel accepted the document
OverLimitSent ==
    /\ call.fn = "overflow"
    /\ call.pc \in {"returned", "raised"}
    /\ Len(call.caption) > call.limit
    /\ call.sent

\* C12: a call with a caption longer than the limit whose document send
\* succeeded returns after at least two channel sends: the document, then
\* one text message per remaining chunk of the caption, in the order of
\* the text.
C12_DocumentThenChunks ==
    OverLimitSent
    => /\ call.pc = "returned"
       /\ Len(call.sends) >= 2
       /\ call.sends[1].kind = "document"
       /\ LET chunks == _split_text(call.caption, call.limit)
          IN /\ Len(call.sends) = Len(chunks)
             /\ \A k \in 2..Len(chunks) :
                    call.sends[k].kind = "text" /\ call.sends[k].body = chunks[k]

\* text s has sub as a run of consecutive characters
Contains(s, sub) ==
    \E i \in 1..(Len(s) - Len(sub) + 1) : SubSeq(s, i, i + Len(sub) - 1) = sub

\* a document request was made for a caption longer than the limit, with
\* a deep link
OverLimitWithLink ==
    /\ call.fn = "overflow"
    /\ call.sends # << >>
    /\ Len(call.caption) > call.limit
    /\ Truthy(call.view_url)

\* C13 as claimed: the caption of the document send of an over-limit call
\* with a deep link is at most the limit long and contains the link.
C13_FirstWithinLimit ==
    OverLimitWithLink
    => /\ Len(call.sends[1].body) <= call.limit
       /\ Contains(call.sends[1].body, call.view_url.s)

\* C13 amended: the caption of the document send contains the link line;
\* it is at most the limit long when the link line is, and it is the link
\* line alone when the link line is longer than the limit.
C13_FirstCarriesLink ==
    OverLimitWithLink
    => LET line == link_line(call.view_url)
           body == call.sends[1].body
       IN /\ Contains(body, call.view_url.s)
          /\ IF Len(line) <= call.limit
             THEN /\ Len(body) = call.limit
                  /\ body = Take(call.caption, call.limit - Len(line)) \o line
             ELSE body = line

\* C13 witness: the document of an over-limit call was sent with a link
\* line that fits, after a cut of the caption that is not empty.
C13_Witness ==
    /\ OverLimitWithLink
    /\ call.sent
    /\ Len(link_line(call.view_url)) < call.limit
    /\ Len(call.sends[1].body) = call.limit

\* the texts of a sequence, one after the other
RECURSIVE Flatten(_)
Flatten(texts) ==
    IF texts = << >> THEN << >> ELSE Head(texts) \o Flatten(Tail(texts))

\* the body of request k of the call without the link line put into it
SentBody(k) ==
    LET body == call.sends[k].body
        line == link_line(call.view_url)
    IN IF k = 1 /\ Truthy(call.view_url) /\ Len(body) >= Len(line)
          /\ SubSeq(body, Len(body) - Len(line) + 1, Len(body)) = line
       THEN SubSeq(body, 1, Len(body) - Len(line))
       ELSE body

\* C14: on the over-limit path the bodies of the requests, in the order
\* they were made and without the link line, make up the caption exactly,
\* and every chunk of the splitter is neither empty nor longer than the
\* limit.
C14_ChunksReproduceText ==
    OverLimitSent
    => /\ Flatten([k \in 1..Len(call.sends) |-> SentBody(k)]) = call.caption
       /\ LET chunks == _split_text(call.caption, call.limit)
          IN \A k \in 1..Len(chunks) :
                 Len(chunks[k]) >= 1 /\ Len(chunks[k]) <= call.limit

\* C15: when sign_token raises for a recipient, the notification is still
\* sent to it (the sendDocument request is reached whenever the attachment
\* is at hand), it carries no link as the button URL, its caption is the
\* rendered caption without a link line, and no exception ends the loop.
C15_TokenFailureStillSends ==
    [][ \A t \in Threads : \A pdf_ok \in BOOLEAN :
          DispatchOutcome(t, FALSE, pdf_ok)
          => LET f == inv[t]
                 g == inv'[t]
             IN /\ g.pc # "except"
                /\ (f.pdf_bytes \/ pdf_ok) => g.pc = "post"
                /\ g.pc = "post"
                     => ~ g.link.url /\ g.per_user_len = f.caption.len ]_vars

\* C16: the deep link handed to a send as the button URL was signed for
\* the user_id of the recipient of that send and the news_id of the
\* announcement sent.
C16_LinkSignedForRecipient ==
    \A t \in Threads :
        (inv[t].pc = "post" /\ inv[t].link.bound /\ inv[t].link.url)
        => /\ inv[t].link.user_id = Recipient(inv[t]).user_id
           /\ inv[t].link.news_id = Announcement(inv[t]).NEWSID

\* C17: when the attachment was downloaded and the AI analysis raises or
\* returns null, building the caption does not raise and the caption
\* names the scrip and carries the headline, cut at 100 characters with an
\* ellipsis when it is longer.
C17_GracefulDegradation ==
    ( /\ call.fn = "caption"
      /\ call.pc # "called"
      /\ call.download = "ok"
      /\ call.memory_ok
      /\ call.ai \in {"raises", "null"} )
    => /\ call.pc = "returned"
       /\ call.final_caption.kind = "ai_unavailable"
       /\ call.final_caption.scrip = call.scrip_code
       /\ call.final_caption.title = Title(Headline(call))

\* C18: a recipient that needs notice for an announcement whose attachment
\* could not be downloaded is sent the notification with the caption of
\* the unavailable document.
C18_NotifiedWithoutDocument ==
    [][ \A t \in Threads : \A pdf_ok \in BOOLEAN :
          (DispatchOutcome(t, TRUE, pdf_ok) /\ ~ inv[t].pdf_bytes)
          => /\ inv'[t].pc = "post"
             /\ inv'[t].caption.kind = "pdf_failed" ]_vars

\* C19: building the caption of a record never raises, whatever NEWSSUB
\* and HEADLINE hold and however the download and the analysis end.
C19_CaptionNeverRaises ==
    call.fn = "caption" => call.pc # "raised"

\* C20: after the filter loop an announcement dated at the cutoff that
\* some recipient needs goes on to enrichment and to the dispatch loop
\* over those recipients; an announcement dated before the cutoff is
\* skipped, and no dispatch loop runs for one.
C20_CutoffBoundary ==
    [][ \A t \in Threads :
          LET f == inv[t]
              g == inv'[t]
          IN /\ (f.pc = "filter" /\ f.ridx > Len(telegram_recipients) /\ g # f)
                  => LET naive_date == ParseDate(Announcement(f).NEWS_DT)
                     IN /\ (naive_date.ok /\ naive_date.at < cutoff_time)
                             => g.pc = "ann" /\ g.aidx = f.aidx + 1
                        /\ (naive_date.ok /\ naive_date.at = cutoff_time
                              /\ f.need # << >>)
                             => g.pc = "dispatch" /\ g.need = f.need /\ g.didx = 1
             /\ InDispatchLoop(g)
                  => ParseDate(Announcement(g).NEWS_DT).at >= cutoff_time ]_vars

\* C20 witness: the document of the announcement dated at the cutoff is
\* about to be sent, and the announcement dated before it was skipped in
\* an earlier sweep.
C20_Witness ==
    \E t \in Threads :
        /\ inv[t].pc = "post"
        /\ ParseDate(Announcement(inv[t]).NEWS_DT).at = cutoff_time
        /\ started = 2
        /\ Len(monitored_scrips) = 2
        /\ \A r \in Rows : r.news_id = "n3" => store[r] = 0

\* the token was verified with the key it was signed with
SameSecret == Secret(call.sign_secret) = Secret(call.verify_secret)

\* half seconds from signing to expiry
Lifetime == 2 * call.ttl

\* C21: verify_token of a signed token, verified with the signing key
\* before ttl seconds have passed, returns the user_id and news_id that
\* were signed; a string that differs from the signed token in its
\* signature segment or in its payload segment, and a token signed with
\* another key, is answered with None.
C21_TokenRoundTrip ==
    (call.fn = "token" /\ call.pc = "verified")
    => /\ ( call.presented.as = "signed" /\ SameSecret
            /\ call.now < call.signed_at + Lifetime )
          => /\ call.result.valid
             /\ call.result.user_id = call.payload.user_id
             /\ call.result.news_id = call.payload.news_id
       /\ ( call.presented.as # "signed" \/ ~ SameSecret )
          => call.result = Invalid

\* C21 witness: a token was verified with its key before expiry, half a
\* second after it was signed.
C21_Witness ==
    /\ call.fn = "token"
    /\ call.pc = "verified"
    /\ call.presented.as = "signed"
    /\ SameSecret
    /\ call.now = call.signed_at + 1
    /\ call.result.valid

\* C22: verify_token of a signed token answers None at every time at
\* which ttl seconds or more have passed since it was signed.
C22_InvalidFromExpiry ==
    ( /\ call.fn = "token"
      /\ call.pc = "verified"
      /\ call.presented.as = "signed"
      /\ SameSecret
      /\ call.now >= call.signed_at + Lifetime )
    => call.result = Invalid

\* the gate at line 95 has been checked
GateChecked == call.fn = "gate" /\ call.gate_memory # NoReading

\* C23: the summarizer is invoked only if the memory was within the soft
\* limit when the gate was checked; when the memory exceeds the soft limit
\* at the gate, the summarizer is not invoked, a fallback template is the
\* caption and the announcement goes on to the dispatch loop.
C23_GateThenDispatch ==
    /\ (call.fn = "gate" /\ call.invoked)
         => is_memory_ok(call.gate_memory)
    /\ (GateChecked /\ ~ is_memory_ok(call.gate_memory))
         => /\ ~ call.invoked
            /\ call.pc = "dispatch"
            /\ call.final_caption \in {"pdf_failed", "ai_unavailable"}

\* C24: a sweep invoked when there is no monitored scrip or no recipient
\* never gets to a fetch, a store write or a send: the task logs the skip
\* and returns, and nothing is raised.
C24_EmptyWorkSkip ==
    EmptyWork
    => /\ \A t \in Threads :
            /\ inv[t].pc \in {"idle", "task"}
            /\ ~ inv[t].raised
       /\ \A r \in Rows : store[r] = 0
       /\ delivered = 0
       /\ ~ failed
       /\ (started > 0 /\ \A t \in Threads : inv[t].pc = "idle")
            => \E t \in Threads : inv[t].skipped

\* C24 witness: with a monitored scrip and no recipient, two sweeps were
\* invoked and both have returned.
C24_Witness ==
    /\ world.scrips # << >>
    /\ world.recipients = << >>
    /\ started = 2
    /\ \A t \in Threads : inv[t].pc = "idle"
    /\ \E t \in Threads : inv[t].skipped

\* C25: the trigger starts a sweep only when a secret is configured and
\* the path parameter equals it; otherwise no sweep is started and the
\* response is 403; an accepted trigger answers 200, and its response can
\* be returned while the sweep it started is still running.
C25_TriggerNeedsSecret ==
    (call.fn = "trigger")
    => /\ call.thread # "none"
            => ( /\ call.cron_secret_key \notin { Null, Str(<< >>) }
                 /\ call.secret_key = call.cron_secret_key )
       /\ ( call.pc = "responded"
            /\ ( call.cron_secret_key \in { Null, Str(<< >>) }
                 \/ call.secret_key # call.cron_secret_key ) )
            => (call.response = 403 /\ call.thread = "none")
       /\ ( call.pc = "responded" /\ call.thread # "none" )
            => call.response = 200
       /\ ( call.pc = "started" /\ call.thread = "running" )
            => ENABLED TriggerRespond

\* C25 witness: the response of an accepted trigger has been returned and
\* the sweep it started has not finished.
C25_Witness ==
    /\ call.fn = "trigger"
    /\ call.pc = "responded"
    /\ call.response = 200
    /\ call.thread = "running"

\* C26: an iteration of the dispatch loop that inserts the SeenRecord of
\* the recipient's user goes on to the send to that recipient (the call at
\* line 166): no iteration writes the record and then leaves the loop by an
\* exception before the send is attempted.
C26_WrittenThenSendAttempt ==
    [][ \A t \in Threads : \A signed, pdf_ok \in BOOLEAN :
          (DispatchOutcome(t, signed, pdf_ok) /\ store' # store)
          => inv'[t].pc # "except" ]_vars

\* a task of scheduler thread l has not returned by the time the
\* interval has elapsed
StuckPastInterval(l) ==
    /\ call.loops[l].pc = "task"
    /\ call.loops[l].clock >= call.every_seconds

C28_OneSchedulerThread ==
    (call.fn = "scheduler") => Cardinality(Alive(call.loops)) <= 1

\* the summarizer returned a value of its own in a field
OwnValue(ai) == ai.t = "str" /\ ai.s # << >> /\ ai # NA

\* the value the quote provider has for price_change
QuoteChange(yahoo_data) ==
    IF Usable(yahoo_data.day_change_percent)
    THEN Str(yahoo_data.day_change_percent.s \o << "%" >>)
    ELSE Str(yahoo_data.day_change.s)

\* C29: in the merged result each of current_stock_price, price_change,
\* market_cap and company_name keeps the value of the summarizer when that
\* value is not blank and not 'N/A', and carries the value of the quote
\* provider when the summarizer left it blank or 'N/A' and the quote
\* provider has a usable value.
C29_QuoteMerge ==
    (call.fn = "merge" /\ call.pc = "merged")
    => LET j == call.json_data
           y == call.yahoo_data
           m == call.merged
       IN /\ OwnValue(j.current_stock_price)
               => m.current_stock_price = j.current_stock_price
          /\ OwnValue(j.price_change) => m.price_change = j.price_change
          /\ OwnValue(j.market_cap) => m.market_cap = j.market_cap
          /\ OwnValue(j.company_name) => m.company_name = j.company_name
          /\ call.quoted
               => /\ ( ~ OwnValue(j.current_stock_price)
                       /\ Usable(y.current_price) )
                       => m.current_stock_price = Str(y.current_price.s)
                  /\ ( ~ OwnValue(j.price_change)
                       /\ ( Usable(y.day_change_percent) \/ Usable(y.day_change) ) )
                       => m.price_change = QuoteChange(y)
                  /\ ( ~ OwnValue(j.market_cap) /\ Usable(y.market_cap) )
                       => m.market_cap = y.market_cap
                  /\ ( ~ OwnValue(j.company_name) /\ Usable(y.company_name) )
                       => m.company_name = y.company_name

\* C30: the caption of the failed download is rendered only for an
\* announcement whose attachment was not downloaded: whenever the
\* attachment is at hand, the caption is the structured AI message or the
\* template of the unavailable analysis.
C30_FailedCaptionOnlyOnFailure ==
    \A t \in Threads :
        /\ inv[t].caption.kind = "pdf_failed" => ~ inv[t].pdf_bytes
        /\ (inv[t].pdf_bytes /\ inv[t].caption.kind # "none")
             => inv[t].caption.kind \in {"ai", "ai_unavailable"}

====
